---- MODULE Spec2Model ----
(***************************************************************************)
(* A model of the multi-instance search resolution of mcp-server-searxng:  *)
(* SearchHandler.search (sequential fallback), ParallelSearchHandler.search*)
(* (parallel fan-out) and the CallToolRequestSchema handler that validates *)
(* the arguments, runs the parallel search and shapes the response.        *)
(*                                                                         *)
(* An instance base URL is an identifier 1..MaxInstances.  What an         *)
(* instance does when it is contacted is fixed per behaviour in `backend`. *)
(* Text is modelled structurally: a message is a record that keeps the     *)
(* parts a template string is built from.                                  *)
(***************************************************************************)
EXTENDS Integers, Sequences, FiniteSets, TLC

\* Bounds of the model.
MaxInstances == 2

MaxReconfigs == 1

\* errorText.substring(0, 200)
BodyLimit == 200

InstanceIds == 1 .. MaxInstances

Min(a, b) == IF a <= b THEN a ELSE b

Range(s) == {s[i] : i \in 1 .. Len(s)}

RECURSIVE Flatten(_)
\* Array.prototype.flatMap over the results arrays: concatenation in order.
Flatten(ss) == IF ss = <<>> THEN <<>> ELSE Head(ss) \o Flatten(Tail(ss))

(***************************************************************************)
(* JavaScript values (arguments, totals).  A number is kept in halves      *)
(* (h = 2 * value), so that 5.5 is a value and "is an integer" is a check. *)
(***************************************************************************)
Undefined == [t |-> "undefined"]
Str(s) == [t |-> "string", s |-> s]
Num(h) == [t |-> "number", h |-> h]
IntV(n) == Num(2 * n)
Arr(a) == [t |-> "array", a |-> a]
Obj(f) == [t |-> "object", f |-> f]

\* ToBoolean
Truthy(v) ==
    CASE v.t = "undefined" -> FALSE
      [] v.t = "string" -> v.s # ""
      [] v.t = "number" -> v.h # 0
      [] OTHER -> TRUE

\* a || b
OrElse(a, b) == IF Truthy(a) THEN a ELSE b

\* Coalesce that always takes the default.
CoalesceAlwaysDefault(a, b) == b

\* a ?? b
Coalesce(a, b) == IF a.t = "undefined" THEN b ELSE a

(***************************************************************************)
(* The backend.  Each outcome is what one POST /search to an instance      *)
(* leads to in the code of search:                                         *)
(*   ok         status 2xx, JSON body with a non-empty results array       *)
(*   okNull     status 2xx, JSON body whose results array holds a null     *)
(*   empty      status 2xx, JSON body with no or an empty results array    *)
(*   http       non-2xx status, body readable (longer than BodyLimit)      *)
(*   httpShort  non-2xx status, body readable (shorter than BodyLimit)     *)
(*   httpNoBody non-2xx status, reading the body fails                     *)
(*   badjson    status 2xx, body is not JSON (response.json() rejects)     *)
(*   neterr     fetch rejects (connection refused, DNS, TLS)               *)
(*   badurl     the base URL does not parse: new URL throws, no call made  *)
(*   hang       the instance accepts the call and never answers           *)
(***************************************************************************)
Outcomes ==
    {"ok", "okNull", "empty", "http", "httpShort", "httpNoBody", "badjson",
     "neterr", "badurl", "hang"}

\* The length of the body an instance sends with a non-2xx status.
BodyLen(kind) == IF kind = "http" THEN BodyLimit + 50 ELSE 20

\* A raw result record of instance i (the k-th of its page).
RawResult(i, k) ==
    [title |-> "t" \o ToString(i) \o ToString(k),
     url |-> "u" \o ToString(i) \o ToString(k),
     content |-> <<"a", ".", "b">>,
     score |-> "", category |-> "", engine |-> "e" \o ToString(i),
     publishedDate |-> "", published_date |-> ""]

\* A null element of a results array.
Null == [null |-> TRUE]

\* The results array of instance i: instance i answers with i results.
ResultsOf(i, kind) ==
    CASE kind = "ok" -> [k \in 1 .. i |-> RawResult(i, k)]
      [] kind = "okNull" -> <<Null>>
      [] OTHER -> <<>>

\* The parsed JSON body of a 2xx answer of instance i.
RawResponse(i, kind) ==
    [results |-> ResultsOf(i, kind), number_of_results |-> IntV(1000 + i), from |-> i]

(***************************************************************************)
(* Messages.                                                               *)
(***************************************************************************)
\* The message of an error the platform raises (fetch, URL, JSON parsing).
RawError(text) == [kind |-> "raw", text |-> text]

\* `${instance} returned HTTP ${status} ${statusText}. Response: ${errorText.substring(0, 200)}`
HttpMsg(i, textLen, readable) ==
    [kind |-> "http", inst |-> i,
     text |-> IF readable THEN [body |-> TRUE, len |-> Min(textLen, BodyLimit)]
              ELSE [body |-> FALSE, len |-> 26]]

\* `${instance} returned no results`
NoResultsMsg(i) == [kind |-> "noresults", inst |-> i]

\* `Failed to connect to ${instance}: ${errorMessage}`
ConnectMsg(i, cause) == [kind |-> "connect", inst |-> i, cause |-> cause]

\* errorDetails with the ordinal taken from the 0-based index.
errorDetailsZeroBased(errs) == [i \in 1 .. Len(errs) |-> [ord |-> i - 1, err |-> errs[i]]]

\* errors.map((err, i) => `  [${i+1}] ${err}`)
errorDetails(errs) == [i \in 1 .. Len(errs) |-> [ord |-> i, err |-> errs[i]]]

\* `All SearXNG instances failed. ... ${this.instances.join(', ')}\n\nDetails:\n${errorDetails}`
AllFailedMsg(instances, errs) ==
    [kind |-> "allFailed", urls |-> instances, details |-> errorDetails(errs)]

\* What the platform raises for an outcome that makes the try block throw.
PlatformError(kind) ==
    CASE kind = "badurl" -> RawError("Invalid URL")
      [] kind = "neterr" -> RawError("request failed")
      [] kind = "badjson" -> RawError("invalid json response body")
      [] OTHER -> RawError("unexpected")

\* The error message the code builds for a non-2xx answer.
HttpErrorMsg(i, kind) == HttpMsg(i, BodyLen(kind), kind # "httpNoBody")

IsHttpFailure(kind) == kind \in {"http", "httpShort", "httpNoBody"}

\* HasResults with the length of the results array left unchecked.
HasResultsUnchecked(kind) == kind \in {"ok", "okNull", "empty"}

\* data.results?.length is truthy
HasResults(kind) == kind \in {"ok", "okNull"}

\* An argument bag: every field the code reads; an absent field is Undefined.
NoFields ==
    [query |-> Undefined, page |-> Undefined, language |-> Undefined,
     time_range |-> Undefined, safesearch |-> Undefined, categories |-> Undefined,
     max_results |-> Undefined, offset |-> Undefined, content_length |-> Undefined]

Args(f) == Obj(f)

validTimeRanges == {"all_time", "day", "week", "month", "year"}

validCategories ==
    {"general", "news", "science", "files", "images", "videos", "music",
     "social media", "it"}

Invalid(rule, value) == [valid |-> FALSE, rule |-> rule, value |-> value]

RECURSIVE FirstBadCategory(_)
\* The first element of the categories array that is not a valid category.
FirstBadCategory(a) ==
    IF a = <<>> THEN Undefined
    ELSE IF Head(a).t # "string" \/ Head(a).s \notin validCategories THEN Head(a)
    ELSE FirstBadCategory(Tail(a))

HasBadCategory(a) == \E i \in 1 .. Len(a) : a[i].t # "string" \/ a[i].s \notin validCategories

\* isWebSearchArgs: the first violated rule, or valid.
isWebSearchArgs(args) ==
    IF args.t # "object" THEN Invalid("object", Undefined)
    ELSE LET a == args.f IN
    IF a.query.t = "undefined" THEN Invalid("query missing", Undefined)
    ELSE IF a.query.t # "string" THEN Invalid("query type", Undefined)
    ELSE IF a.page.t # "undefined" /\ a.page.t # "number" THEN Invalid("page", Undefined)
    ELSE IF a.language.t # "undefined" /\ a.language.t # "string"
        THEN Invalid("language", Undefined)
    ELSE IF a.time_range.t # "undefined"
            /\ (a.time_range.t # "string" \/ a.time_range.s \notin validTimeRanges)
        THEN Invalid("time_range", Undefined)
    ELSE IF a.safesearch.t # "undefined"
            /\ (a.safesearch.t # "number" \/ a.safesearch.h \notin {0, 2, 4})
        THEN Invalid("safesearch", Undefined)
    ELSE IF a.categories.t # "undefined" /\ a.categories.t # "array"
        THEN Invalid("categories", Undefined)
    ELSE IF a.categories.t = "array" /\ HasBadCategory(a.categories.a)
        THEN Invalid("category", FirstBadCategory(a.categories.a))
    ELSE IF a.max_results.t # "undefined"
            /\ (a.max_results.t # "number" \/ a.max_results.h < 2 \/ a.max_results.h > 200)
        THEN Invalid("max_results", Undefined)
    ELSE IF a.offset.t # "undefined" /\ (a.offset.t # "number" \/ a.offset.h < 0)
        THEN Invalid("offset", Undefined)
    ELSE IF a.content_length.t # "undefined"
            /\ (a.content_length.t # "number" \/ a.content_length.h < 0
                \/ a.content_length.h > 2000)
        THEN Invalid("content_length", Undefined)
    ELSE [valid |-> TRUE, rule |-> "none", value |-> Undefined]

(***************************************************************************)
(* The translation of the parameters into the form fields of the backend.  *)
(***************************************************************************)
\* Math.floor(params.offset / resultsPerPage) + 1, in halves
PageOfOffset(offset, resultsPerPage) == Num(2 * ((offset.h \div resultsPerPage.h) + 1))

\* pageNumber with the offset left out of the translation.
pageNumberIgnoresOffset(params) == OrElse(params.page, IntV(1))

\* let pageNumber = params.page || 1; if (params.offset && params.offset > 0) ...
pageNumber(params) ==
    IF Truthy(params.offset) /\ params.offset.t = "number" /\ params.offset.h > 0
    THEN PageOfOffset(params.offset, OrElse(params.max_results, IntV(10)))
    ELSE OrElse(params.page, IntV(1))

\* searchParams with time_range handed on as the request has it.
searchParamsRawTimeRange(params) ==
    [q |-> params.query,
     pageno |-> pageNumber(params),
     language |-> OrElse(params.language, Str("all")),
     time_range |-> OrElse(params.time_range, Str("")),
     safesearch |-> Coalesce(params.safesearch, IntV(0)),
     format |-> Str("json")]

searchParams(params) ==
    [q |-> params.query,
     pageno |-> pageNumber(params),
     language |-> OrElse(params.language, Str("all")),
     time_range |-> IF params.time_range = Str("all_time") THEN Str("")
                    ELSE OrElse(params.time_range, Str("")),
     safesearch |-> Coalesce(params.safesearch, IntV(0)),
     format |-> Str("json")]

(***************************************************************************)
(* The shaping of the results.  A content text is a sequence of characters;*)
(* the other text fields are opaque strings, "" when the backend omits     *)
(* them (an omitted and an empty text are both falsy in the code).         *)
(***************************************************************************)
IsTerminator(c) == c \in {".", "!", "?"}

RECURSIVE TrimStart(_)
TrimStart(s) == IF s # <<>> /\ Head(s) = " " THEN TrimStart(Tail(s)) ELSE s

RECURSIVE TrimEnd(_)
TrimEnd(s) ==
    IF s # <<>> /\ s[Len(s)] = " " THEN TrimEnd(SubSeq(s, 1, Len(s) - 1)) ELSE s

\* String.prototype.trim
Trim(s) == TrimEnd(TrimStart(s))

RECURSIVE SplitOnTerminators(_, _, _)
\* content.split(/[.!?]+/): the pieces between maximal runs of terminators.
SplitOnTerminators(s, cur, inRun) ==
    IF s = <<>> THEN <<cur>>
    ELSE IF IsTerminator(Head(s))
        THEN IF inRun THEN SplitOnTerminators(Tail(s), cur, TRUE)
             ELSE <<cur>> \o SplitOnTerminators(Tail(s), <<>>, TRUE)
    ELSE SplitOnTerminators(Tail(s), Append(cur, Head(s)), FALSE)

RECURSIVE TrimmedNonEmpty(_)
\* .filter(s => s.trim().length > 0).map(s => s.trim())
TrimmedNonEmpty(pieces) ==
    IF pieces = <<>> THEN <<>>
    ELSE IF Trim(Head(pieces)) # <<>>
        THEN <<Trim(Head(pieces))>> \o TrimmedNonEmpty(Tail(pieces))
    ELSE TrimmedNonEmpty(Tail(pieces))

sentences(content) == TrimmedNonEmpty(SplitOnTerminators(content, <<>>, FALSE))

RECURSIVE AccumulateSentences(_, _, _)
\* the for loop over sentences: stop at the first one that does not fit
AccumulateSentences(ss, truncated, contentLength) ==
    IF ss = <<>> THEN truncated
    ELSE LET next == truncated \o Head(ss) \o <<".", " ">> IN
         IF 2 * Len(next) <= contentLength.h
         THEN AccumulateSentences(Tail(ss), next, contentLength)
         ELSE truncated

\* content.substring(0, end) for a number end kept in halves
SubstringTo(s, endH) ==
    LET e == IF endH <= 0 THEN 0 ELSE Min(endH \div 2, Len(s)) IN SubSeq(s, 1, e)

\* The content of the structured result, for a non-empty raw content.
TruncateContent(content, contentLength) ==
    IF 2 * Len(content) > contentLength.h
    THEN LET acc == AccumulateSentences(sentences(content), <<>>, contentLength)
             truncated == IF acc = <<>>
                          THEN SubstringTo(content, contentLength.h - 6) \o <<".", ".", ".">>
                          ELSE acc
         IN Trim(truncated)
    ELSE content

\* formatStructuredSearchResult for a result that is an object.
formatStructuredSearchResult(result, contentLength) ==
    [title |-> result.title,
     url |-> result.url,
     content |-> IF result.content # <<>>
                 THEN [present |-> TRUE, text |-> TruncateContent(result.content, contentLength)]
                 ELSE [present |-> FALSE, text |-> <<>>],
     score |-> result.score,
     category |-> IF result.category # "" THEN result.category ELSE result.engine,
     engine |-> result.engine,
     publishedDate |-> IF result.publishedDate # "" THEN result.publishedDate
                       ELSE result.published_date]

\* Array.prototype.slice(start, end) for numbers kept in halves, both >= 0
SliceH(s, startH, endH) ==
    LET a == Min(startH \div 2, Len(s))
        b == Min(endH \div 2, Len(s))
    IN SubSeq(s, a + 1, b)

\* buildStructuredResponse with the fallback total counted after the slice.
buildStructuredResponseCountsWindow(data, query, params, timed) ==
    LET contentLength == OrElse(params.content_length, IntV(200))
        maxResults == OrElse(params.max_results, IntV(10))
        offset == OrElse(params.offset, IntV(0))
    IN
    IF \E k \in 1 .. Len(data.results) : data.results[k] = Null
    THEN [type |-> "throw", message |-> RawError("Cannot read properties of null")]
    ELSE LET structuredResults ==
                 SliceH([k \in 1 .. Len(data.results) |->
                            formatStructuredSearchResult(data.results[k], contentLength)],
                        offset.h, offset.h + maxResults.h)
         IN [type |-> "return",
             data |-> [results |-> structuredResults,
                       metadata |-> [total_results |->
                                         OrElse(data.number_of_results,
                                                IntV(Len(structuredResults))),
                                     query |-> query,
                                     time_taken |-> timed]]]

\* buildStructuredResponse: the response, or the TypeError that reading a
\* field of a null result raises.
buildStructuredResponse(data, query, params, timed) ==
    LET contentLength == OrElse(params.content_length, IntV(200))
        maxResults == OrElse(params.max_results, IntV(10))
        offset == OrElse(params.offset, IntV(0))
    IN
    IF \E k \in 1 .. Len(data.results) : data.results[k] = Null
    THEN [type |-> "throw", message |-> RawError("Cannot read properties of null")]
    ELSE LET structuredResults ==
                 [k \in 1 .. Len(data.results) |->
                     formatStructuredSearchResult(data.results[k], contentLength)]
         IN [type |-> "return",
             data |-> [results |-> SliceH(structuredResults, offset.h, offset.h + maxResults.h),
                       metadata |-> [total_results |->
                                         OrElse(data.number_of_results,
                                                IntV(Len(data.results))),
                                     query |-> query,
                                     time_taken |-> timed]]]

(***************************************************************************)
(* State.                                                                  *)
(***************************************************************************)
VARIABLES
    SEARXNG_INSTANCES,  \* the configured instance list (one shared array)
    reconfigs,          \* how often the list has been rewritten
    backend,            \* what each instance does when it is contacted
    mode,               \* the running request: "idle", "seq", "par" or "tool"
    pc,                 \* "idle", "await" (SearchHandler awaits a fetch),
                        \* "settling" (Promise.allSettled is pending), "done"
    params,             \* the argument bag of the request
    instanceIdx,        \* SearchHandler: position of the for-of iterator
    errors,             \* SearchHandler: the errors array
    searchPromises,     \* ParallelSearchHandler: one promise per position
    calls,              \* the backend calls issued by the request, in order
    arrival,            \* the positions whose call has settled, in arrival order
    outcome,            \* what search returned or threw
    response,           \* what the tool-call handler answered
    entryInstances,     \* the instance list as it was when the request started
    seen,               \* the last terminal error each strategy raised
    requests            \* the searches that run side by side on one handler

vars ==
    <<SEARXNG_INSTANCES, reconfigs, backend, mode, pc, params, instanceIdx, errors,
      searchPromises, calls, arrival, outcome, response, entryInstances, seen, requests>>

None == [type |-> "none"]

NoMsg == [kind |-> "none"]

Returned(data) == [type |-> "return", data |-> data]

Thrown(message) == [type |-> "throw", message |-> message]

\* The instance lists a deployment can configure: 0..MaxInstances distinct
\* base URLs, each named by its position in the configured list.  What the
\* instances do is free (backend), so every list of n instances is covered.
InstanceLists == {[k \in 1 .. n |-> k] : n \in 0 .. MaxInstances}

\* The state after the module is loaded: a list is configured, no request
\* runs.  An instance outside the configured list is unreachable.
Init ==
    /\ SEARXNG_INSTANCES \in InstanceLists
    /\ reconfigs = 0
    /\ backend \in [InstanceIds -> Outcomes]
    /\ \A i \in InstanceIds : i > Len(SEARXNG_INSTANCES) => backend[i] = "neterr"
    /\ mode = "idle"
    /\ pc = "idle"
    /\ params = Undefined
    /\ instanceIdx = 0
    /\ errors = <<>>
    /\ searchPromises = <<>>
    /\ calls = <<>>
    /\ arrival = <<>>
    /\ outcome = None
    /\ response = None
    /\ entryInstances = <<>>
    /\ seen = [seq |-> NoMsg, par |-> NoMsg]
    /\ requests = <<>>

\* A request starts when no other one is running.
Startable == pc \in {"idle", "done"}

\* The decimal text of a number kept in halves.
NumberText(h) ==
    LET abs == IF h < 0 THEN 0 - h ELSE h
        digits == ToString(abs \div 2) \o (IF abs % 2 = 1 THEN ".5" ELSE "")
    IN IF h < 0 THEN "-" \o digits ELSE digits

\* String(value): the text a form field carries.
StringOf(v) ==
    CASE v.t = "string" -> v.s
      [] v.t = "number" -> NumberText(v.h)
      [] v.t = "undefined" -> "undefined"
      [] OTHER -> "[object]"

\* Object.entries(searchParams).reduce(... acc[key] = String(value) ...)
FormFields(fields) == [key \in DOMAIN fields |-> StringOf(fields[key])]

\* One POST /search to the instance at list position pos.
Call(pos, instance, p) ==
    [pos |-> pos, inst |-> instance, body |-> FormFields(searchParams(p.f))]

(***************************************************************************)
(* SearchHandler.search                                                    *)
(***************************************************************************)
\* What the catch block pushes for an outcome that makes the try block throw.
SeqCaught(instance, kind) == ConnectMsg(instance, PlatformError(kind))

\* The error a failed attempt on an instance that answered leaves in errors.
SeqFailure(instance, kind) ==
    IF IsHttpFailure(kind) THEN HttpErrorMsg(instance, kind)
    ELSE IF kind \in {"neterr", "badjson"} THEN SeqCaught(instance, kind)
    ELSE NoResultsMsg(instance)

\* throw new Error(`All SearXNG instances failed. ...`) of SearchHandler
SeqAllFailed(instances, errs) == Thrown(AllFailedMsg(instances, errs))

RECURSIVE SeqLoopAhead(_, _, _, _, _)
\* SeqLoop with the fetch not awaited: the calls to all the instances that
\* remain are issued before the first answer is looked at.
SeqLoopAhead(instances, i, errs, issued, p) ==
    IF i > Len(instances)
    THEN [pc |-> "done", instanceIdx |-> i, errors |-> errs, calls |-> issued,
          outcome |-> SeqAllFailed(instances, errs)]
    ELSE IF backend[instances[i]] = "badurl"
    THEN SeqLoopAhead(instances, i + 1,
                      Append(errs, SeqCaught(instances[i], "badurl")), issued, p)
    ELSE [pc |-> "await", instanceIdx |-> i, errors |-> errs,
          calls |-> issued \o [k \in 1 .. (Len(instances) - i + 1) |->
                                  Call(i + k - 1, instances[i + k - 1], p)],
          outcome |-> None]

RECURSIVE SeqLoop(_, _, _, _, _)
\* The for-of loop from position i on, up to its next await or to its end.
SeqLoop(instances, i, errs, issued, p) ==
    IF i > Len(instances)
    THEN [pc |-> "done", instanceIdx |-> i, errors |-> errs, calls |-> issued,
          outcome |-> SeqAllFailed(instances, errs)]
    ELSE IF backend[instances[i]] = "badurl"
    THEN SeqLoop(instances, i + 1,
                 Append(errs, SeqCaught(instances[i], "badurl")), issued, p)
    ELSE [pc |-> "await", instanceIdx |-> i, errors |-> errs,
          calls |-> Append(issued, Call(i, instances[i], p)), outcome |-> None]

SeqSet(r) ==
    /\ pc' = r.pc
    /\ instanceIdx' = r.instanceIdx
    /\ errors' = r.errors
    /\ calls' = r.calls
    /\ outcome' = r.outcome
    /\ seen' = IF r.outcome.type = "throw"
               THEN [seen EXCEPT !.seq = r.outcome.message] ELSE seen

\* search(params) is called on a SearchHandler.
SeqSearch(p) ==
    /\ Startable
    /\ mode' = "seq"
    /\ params' = p
    /\ entryInstances' = SEARXNG_INSTANCES
    /\ SeqSet(SeqLoop(SEARXNG_INSTANCES, 1, <<>>, <<>>, p))
    /\ searchPromises' = <<>>
    /\ arrival' = <<>>
    /\ response' = None
    /\ UNCHANGED <<requests, SEARXNG_INSTANCES, reconfigs, backend>>

\* SeqAnswer with the return of the first success left out: the loop goes on
\* to the instances that remain and returns at the last one only.
SeqAnswerKeepsGoing ==
    /\ mode = "seq"
    /\ pc = "await"
    /\ LET instance == calls[Len(calls)].inst
           kind == backend[instance]
       IN /\ kind # "hang"
          /\ IF HasResults(kind) /\ instanceIdx >= Len(SEARXNG_INSTANCES)
             THEN SeqSet([pc |-> "done", instanceIdx |-> instanceIdx, errors |-> errors,
                          calls |-> calls,
                          outcome |-> Returned(RawResponse(instance, kind))])
             ELSE SeqSet(SeqLoop(SEARXNG_INSTANCES, instanceIdx + 1,
                                 IF HasResults(kind) THEN errors
                                 ELSE Append(errors, SeqFailure(instance, kind)),
                                 calls, params))
    /\ arrival' = Append(arrival, instanceIdx)
    /\ UNCHANGED <<requests, SEARXNG_INSTANCES, reconfigs, backend, mode, params, searchPromises,
                   response, entryInstances>>

\* The loop from the answer of the awaited fetch on: return the data, or
\* push the failure and go on with the next instance.
SeqResume(instances, i, errs, issued, p) ==
    LET instance == issued[Len(issued)].inst
        kind == backend[instance]
    IN IF HasResults(kind)
       THEN [pc |-> "done", instanceIdx |-> i, errors |-> errs, calls |-> issued,
             outcome |-> Returned(RawResponse(instance, kind))]
       ELSE SeqLoop(instances, i + 1, Append(errs, SeqFailure(instance, kind)), issued, p)

\* The awaited fetch settles and the loop runs on.
SeqAnswer ==
    /\ mode = "seq"
    /\ pc = "await"
    /\ backend[calls[Len(calls)].inst] # "hang"
    /\ SeqSet(SeqResume(SEARXNG_INSTANCES, instanceIdx, errors, calls, params))
    /\ arrival' = Append(arrival, instanceIdx)
    /\ UNCHANGED <<requests, SEARXNG_INSTANCES, reconfigs, backend, mode, params, searchPromises, response,
                   entryInstances>>

(***************************************************************************)
(* ParallelSearchHandler.search                                            *)
(***************************************************************************)
Pending(instance) == [status |-> "pending", inst |-> instance]

Fulfilled(instance, value) == [status |-> "fulfilled", inst |-> instance, value |-> value]

Rejected(instance, reason) == [status |-> "rejected", inst |-> instance, reason |-> reason]

\* What the try block of the map callback throws for a failed attempt: the
\* platform's error, or the Error the block itself throws for a non-2xx
\* status or an empty result set.
ParThrown(instance, kind) ==
    IF IsHttpFailure(kind) THEN HttpErrorMsg(instance, kind)
    ELSE IF kind \in {"badurl", "neterr", "badjson"} THEN PlatformError(kind)
    ELSE NoResultsMsg(instance)

\* The catch block of the map callback: every error thrown in the try block
\* lands here and is thrown again as a connection failure.
ParCaught(instance, thrown) == ConnectMsg(instance, thrown)

\* The promise of one map callback once its attempt is over.
ParSettle(instance, kind) ==
    IF HasResults(kind) THEN Fulfilled(instance, RawResponse(instance, kind))
    ELSE Rejected(instance, ParCaught(instance, ParThrown(instance, kind)))

\* this.instances.map(async (instance) => ...): every callback runs up to
\* its fetch; a base URL that does not parse rejects its promise at once.
ParMap(instances) ==
    [pos \in 1 .. Len(instances) |->
        IF backend[instances[pos]] = "badurl"
        THEN ParSettle(instances[pos], "badurl")
        ELSE Pending(instances[pos])]

RECURSIVE ParCallsRetried(_, _, _)
\* ParCalls with every fetch issued a second time.
ParCallsRetried(instances, pos, p) ==
    IF pos > Len(instances) THEN <<>>
    ELSE (IF backend[instances[pos]] = "badurl" THEN <<>>
          ELSE <<Call(pos, instances[pos], p), Call(pos, instances[pos], p)>>)
         \o ParCallsRetried(instances, pos + 1, p)

RECURSIVE ParCalls(_, _, _)
\* The fetch calls the map issues, in list order.
ParCalls(instances, pos, p) ==
    IF pos > Len(instances) THEN <<>>
    ELSE (IF backend[instances[pos]] = "badurl" THEN <<>>
          ELSE <<Call(pos, instances[pos], p)>>)
         \o ParCalls(instances, pos + 1, p)

\* Promise.any in the place of Promise.allSettled: resolves at the first
\* fulfilled promise.
AnyFulfilled(promises) ==
    \/ \E pos \in 1 .. Len(promises) : promises[pos].status = "fulfilled"
    \/ \A pos \in 1 .. Len(promises) : promises[pos].status # "pending"

\* Promise.allSettled(searchPromises) resolves.
AllSettled(promises) == \A pos \in 1 .. Len(promises) : promises[pos].status # "pending"

RECURSIVE ByArrival(_, _)
ByArrival(results, order) ==
    IF order = <<>> THEN <<>>
    ELSE (IF results[Head(order)].status = "fulfilled"
          THEN <<results[Head(order)].value>> ELSE <<>>)
         \o ByArrival(results, Tail(order))

\* fulfilled with the values collected as the calls complete.
fulfilledByArrival(results) == ByArrival(results, arrival)

RECURSIVE fulfilled(_)
\* results.filter(r => r.status === 'fulfilled').map(r => r.value)
fulfilled(results) ==
    IF results = <<>> THEN <<>>
    ELSE (IF Head(results).status = "fulfilled" THEN <<Head(results).value>> ELSE <<>>)
         \o fulfilled(Tail(results))

RECURSIVE rejected(_)
\* results.filter(r => r.status === 'rejected').map(r => r.reason.message)
rejected(results) ==
    IF results = <<>> THEN <<>>
    ELSE (IF Head(results).status = "rejected" THEN <<Head(results).reason>> ELSE <<>>)
         \o rejected(Tail(results))

\* fulfilled.flatMap(r => r.results)
allResults(values) == Flatten([k \in 1 .. Len(values) |-> values[k].results])

\* ParResult with Promise.all semantics: one rejection fails the search.
ParResultAll(instances, results) ==
    IF Len(rejected(results)) > 0 \/ Len(fulfilled(results)) = 0
    THEN Thrown(AllFailedMsg(instances, rejected(results)))
    ELSE Returned([results |-> allResults(fulfilled(results)),
                   number_of_results |-> IntV(Len(allResults(fulfilled(results))))])

\* The code after await Promise.allSettled.
ParResult(instances, results) ==
    IF Len(fulfilled(results)) = 0
    THEN Thrown(AllFailedMsg(instances, rejected(results)))
    ELSE Returned([results |-> allResults(fulfilled(results)),
                   number_of_results |-> IntV(Len(allResults(fulfilled(results))))])

ParStart(p) ==
    /\ params' = p
    /\ entryInstances' = SEARXNG_INSTANCES
    /\ searchPromises' = ParMap(SEARXNG_INSTANCES)
    /\ calls' = ParCalls(SEARXNG_INSTANCES, 1, p)
    /\ arrival' = <<>>
    /\ pc' = "settling"
    /\ outcome' = None
    /\ response' = None
    /\ instanceIdx' = 0
    /\ errors' = <<>>
    /\ UNCHANGED <<requests, SEARXNG_INSTANCES, reconfigs, backend, seen>>

\* search(params) is called on a ParallelSearchHandler.
ParSearch(p) ==
    /\ Startable
    /\ mode' = "par"
    /\ ParStart(p)

\* The fetch of the callback at position pos settles and the callback ends.
ParAnswer(pos) ==
    /\ mode \in {"par", "tool"}
    /\ pc = "settling"
    /\ pos \in 1 .. Len(searchPromises)
    /\ searchPromises[pos].status = "pending"
    /\ backend[searchPromises[pos].inst] # "hang"
    /\ searchPromises' =
           [searchPromises EXCEPT
               ![pos] = ParSettle(searchPromises[pos].inst, backend[searchPromises[pos].inst])]
    /\ arrival' = Append(arrival, pos)
    /\ UNCHANGED <<requests, SEARXNG_INSTANCES, reconfigs, backend, mode, pc, params, instanceIdx, errors,
                   calls, outcome, response, entryInstances, seen>>

(***************************************************************************)
(* The CallToolRequestSchema handler                                       *)
(***************************************************************************)
ErrorResponse(text) == [isError |-> TRUE, content |-> <<[type |-> "text", text |-> text]>>]

TextResponse(text) == [isError |-> FALSE, content |-> <<[type |-> "text", text |-> text]>>]

\* errorMsg.includes("time_range"): the time_range message holds the word, and
\* so does the category message when the offending category does.
MentionsTimeRange(validation) ==
    \/ validation.rule = "time_range"
    \/ validation.rule = "category" /\ validation.value = Str("time_range")

\* EarlyResponse with the validation result logged and not returned.
EarlyResponseNoValidation(name, args) ==
    IF name # "web_search" THEN ErrorResponse([kind |-> "invalidTool", name |-> name])
    ELSE IF ~Truthy(args) THEN ErrorResponse([kind |-> "missingArguments"])
    ELSE None

\* The answer to a call that never reaches the search.
EarlyResponse(name, args) ==
    IF name # "web_search" THEN ErrorResponse([kind |-> "invalidTool", name |-> name])
    ELSE IF ~Truthy(args) THEN ErrorResponse([kind |-> "missingArguments"])
    ELSE LET validation == isWebSearchArgs(args) IN
         IF validation.valid THEN None
         ELSE IF MentionsTimeRange(validation) /\ Truthy(args.f.time_range)
         THEN ErrorResponse([kind |-> "invalidTimeRange", error |-> validation,
                             provided |-> StringOf(args.f.time_range),
                             examples |-> <<"day", "week", "month">>])
         ELSE ErrorResponse([kind |-> "invalid", error |-> validation])

\* catch (error): `Search failed: ${errorMessage}`
SearchFailed(message) == ErrorResponse([kind |-> "searchFailed", message |-> message])

\* An exception that leaves the handler.
Escaped(message) == [type |-> "exception", message |-> message]

\* HandlerResponse with the search outside the try block.
HandlerResponseNoCatch(searched, p) ==
    IF searched.type = "throw" THEN Escaped(searched.message)
    ELSE LET shaped == buildStructuredResponse(searched.data, p.f.query, p.f, "elapsed") IN
         IF shaped.type = "throw" THEN SearchFailed(shaped.message)
         ELSE TextResponse([kind |-> "json", value |-> shaped.data])

\* The handler from the end of the search on: shape and answer, or catch.
HandlerResponse(searched, p) ==
    IF searched.type = "throw" THEN SearchFailed(searched.message)
    ELSE LET shaped == buildStructuredResponse(searched.data, p.f.query, p.f, "elapsed") IN
         IF shaped.type = "throw" THEN SearchFailed(shaped.message)
         ELSE TextResponse([kind |-> "json", value |-> shaped.data])

\* A tools/call request arrives.
CallTool(name, args) ==
    /\ Startable
    /\ mode' = "tool"
    /\ IF EarlyResponse(name, args) # None
       THEN /\ response' = EarlyResponse(name, args)
            /\ pc' = "done"
            /\ params' = args
            /\ entryInstances' = SEARXNG_INSTANCES
            /\ searchPromises' = <<>>
            /\ calls' = <<>>
            /\ arrival' = <<>>
            /\ outcome' = None
            /\ instanceIdx' = 0
            /\ errors' = <<>>
            /\ UNCHANGED <<requests, SEARXNG_INSTANCES, reconfigs, backend, seen>>
       ELSE ParStart(args)

\* Promise.allSettled has resolved: search returns or throws, and the
\* tool-call handler, when it is the caller, answers.
ParFinish ==
    /\ mode \in {"par", "tool"}
    /\ pc = "settling"
    /\ AllSettled(searchPromises)
    /\ pc' = "done"
    /\ outcome' = ParResult(SEARXNG_INSTANCES, searchPromises)
    /\ response' = IF mode = "tool" THEN HandlerResponse(outcome', params) ELSE None
    /\ seen' = IF mode = "par" /\ outcome'.type = "throw"
               THEN [seen EXCEPT !.par = outcome'.message] ELSE seen
    /\ UNCHANGED <<requests, SEARXNG_INSTANCES, reconfigs, backend, mode, params, instanceIdx, errors,
                   searchPromises, calls, arrival, entryInstances>>

(***************************************************************************)
(* Inputs and specifications.                                              *)
(***************************************************************************)
ValidBags ==
    {Args([NoFields EXCEPT !.query = Str("q")]),
     Args([NoFields EXCEPT !.query = Str("q"), !.offset = IntV(1), !.max_results = IntV(1),
                           !.content_length = IntV(1)])}

InvalidBags ==
    {Args(NoFields),
     Args([NoFields EXCEPT !.query = IntV(7)]),
     Args([NoFields EXCEPT !.query = Str("q"), !.time_range = Str("3d")]),
     Args([NoFields EXCEPT !.query = Str("q"), !.max_results = IntV(0)])}

ToolArgs == ValidBags \cup InvalidBags \cup {Undefined}

ToolNames == {"web_search", "other"}

Next ==
    \/ \E p \in ValidBags : SeqSearch(p)
    \/ SeqAnswer
    \/ \E p \in ValidBags : ParSearch(p)
    \/ \E pos \in 1 .. MaxInstances : ParAnswer(pos)
    \/ ParFinish
    \/ \E name \in ToolNames, args \in ToolArgs : CallTool(name, args)

Spec == Init /\ [][Next]_vars

\* The event loop runs every continuation whose promise has settled, and an
\* instance that answers at all answers eventually.  Nothing obliges a caller
\* to start a request.
Fairness ==
    /\ WF_vars(SeqAnswer)
    /\ \A pos \in 1 .. MaxInstances : WF_vars(ParAnswer(pos))
    /\ WF_vars(ParFinish)

FairSpec == Spec /\ Fairness

\* The lists the shared array can be rewritten to: any list of distinct
\* instances.
ConfigLists ==
    {l \in UNION {[1 .. n -> InstanceIds] : n \in 0 .. MaxInstances} :
        \A a, b \in 1 .. Len(l) : a # b => l[a] # l[b]}

\* The exported array is rewritten in place (length = 0, then push), as the
\* tests do, while a request is suspended at an await.
Reconfigure(instances) ==
    /\ pc \in {"await", "settling"}
    /\ reconfigs < MaxReconfigs
    /\ instances # SEARXNG_INSTANCES
    /\ SEARXNG_INSTANCES' = instances
    /\ reconfigs' = reconfigs + 1
    /\ UNCHANGED <<requests, backend, mode, pc, params, instanceIdx, errors, searchPromises,
                   calls, arrival, outcome, response, entryInstances, seen>>

NextReconfig == Next \/ \E instances \in ConfigLists : Reconfigure(instances)

SpecReconfig == Init /\ [][NextReconfig]_vars

(***************************************************************************)
(* The functions of one request, each applied on its own to an argument    *)
(* bag that the initial state draws: isWebSearchArgs, the translation of   *)
(* search, buildStructuredResponse, and a search against one instance that *)
(* serves its result list page by page.                                    *)
(***************************************************************************)
\* Bounds of the argument bags and of the data that is shaped.
MaxResults == 3

MaxText == 4

MaxOffset == 10

MaxWanted == 10

MaxPageSize == 10

TotalHits == 60

Fields == DOMAIN NoFields

\* The values an argument takes: absent, of the wrong type, inside, at the
\* edge of and outside its range, whole and fractional.
FieldValues(f) ==
    CASE f = "query" -> {Undefined, Str("q"), Str(""), IntV(7)}
      [] f = "page" -> {Undefined, Str("1"), IntV(0), IntV(1), IntV(3)}
      [] f = "language" -> {Undefined, Str("en"), Str(""), IntV(1)}
      [] f = "time_range" ->
             {Undefined, Str(""), Str("3d"), IntV(1)} \cup {Str(s) : s \in validTimeRanges}
      [] f = "safesearch" ->
             {Undefined, Str("1"), IntV(0), Num(1), IntV(1), IntV(2), IntV(3)}
      [] f = "categories" ->
             {Undefined, Str("general"), Arr(<<>>), Arr(<<Str("general")>>),
              Arr(<<Str("bad")>>), Arr(<<Str("news"), IntV(1)>>)}
      [] f = "max_results" ->
             {Undefined, Str("5"), IntV(-1), IntV(0), Num(1), IntV(1), IntV(4), Num(11), IntV(100),
              Num(201), IntV(101)}
      [] f = "offset" ->
             {Undefined, Str("0"), IntV(-1), Num(-1), IntV(0), Num(1), IntV(1), IntV(39)}
      [] f = "content_length" ->
             {Undefined, Str("200"), IntV(-1), IntV(0), Num(1), IntV(1), IntV(49), IntV(50),
              Num(401), IntV(1000), Num(2001), IntV(1001)}

\* A request that sets the query and nothing else.
QueryOnly == [NoFields EXCEPT !.query = Str("q")]

\* What a caller hands to the validator: something that is no object, or a
\* bag in which up to two arguments depart from the query-only request.
ValidatorInputs ==
    {Undefined, Str("q"), IntV(7)}
    \cup {Args([[QueryOnly EXCEPT ![f] = v] EXCEPT ![g] = w]) :
              <<f, v, g, w>> \in
                  UNION {{<<f, v, g, w>> : v \in FieldValues(f), w \in FieldValues(g)} :
                             <<f, g>> \in Fields \X Fields}}

\* The state before a function is applied to the drawn argument bag: one
\* instance is configured and no request runs.
Loaded(inputs) ==
    /\ SEARXNG_INSTANCES = <<1>>
    /\ reconfigs = 0
    /\ backend = [i \in InstanceIds |-> "ok"]
    /\ mode = "idle"
    /\ pc = "idle"
    /\ params \in inputs
    /\ instanceIdx = 0
    /\ errors = <<>>
    /\ searchPromises = <<>>
    /\ calls = <<>>
    /\ arrival = <<>>
    /\ outcome = None
    /\ response = None
    /\ entryInstances = <<>>
    /\ seen = [seq |-> NoMsg, par |-> NoMsg]
    /\ requests = <<>>

InitValidate == Loaded(ValidatorInputs)

\* isWebSearchArgs(args) is called; response holds what it reports.
Validate ==
    /\ pc = "idle"
    /\ mode' = "validate"
    /\ pc' = "done"
    /\ response' = isWebSearchArgs(params)
    /\ UNCHANGED <<requests, SEARXNG_INSTANCES, reconfigs, backend, params, instanceIdx, errors,
                   searchPromises, calls, arrival, outcome, entryInstances, seen>>

SpecValidate == InitValidate /\ [][Validate]_vars

\* The requests whose translation is looked at: every combination of the
\* arguments that the translation reads.
TranslateInputs ==
    {Args([QueryOnly EXCEPT !.page = pg, !.offset = off, !.max_results = mr,
                            !.time_range = tr, !.safesearch = ss]) :
         <<pg, off, mr, tr, ss>> \in
             FieldValues("page") \X FieldValues("offset") \X FieldValues("max_results")
                 \X FieldValues("time_range") \X FieldValues("safesearch")}

InitTranslate == Loaded(TranslateInputs)

\* The tool-call handler validates the arguments and search builds the form
\* fields of its first call; a rejected request gets the error response.
Translate ==
    /\ pc = "idle"
    /\ mode' = "translate"
    /\ pc' = "done"
    /\ IF EarlyResponse("web_search", params) # None
       THEN /\ response' = EarlyResponse("web_search", params)
            /\ calls' = <<>>
       ELSE /\ response' = None
            /\ calls' = <<Call(1, SEARXNG_INSTANCES[1], params)>>
    /\ UNCHANGED <<requests, SEARXNG_INSTANCES, reconfigs, backend, params, instanceIdx, errors,
                   searchPromises, arrival, outcome, entryInstances, seen>>

SpecTranslate == InitTranslate /\ [][Translate]_vars

\* The whole numbers a .. b as argument values.
Whole(a, b) == {IntV(n) : n \in a .. b}

\* The requests whose shaping is looked at: windows inside, across and past
\* the end of the result list, whole and fractional, and content lengths
\* from 0 up to past the longest content.
ShapeInputs ==
    {Args([QueryOnly EXCEPT !.offset = off, !.max_results = mr, !.content_length = cl]) :
         <<off, mr, cl>> \in
             ({Undefined, Num(1), Num(3)} \cup Whole(0, MaxResults + 1))
                 \X ({Undefined, Num(3), Num(5)} \cup Whole(1, MaxResults + 1))
                 \X ({Undefined} \cup Whole(0, MaxText + 1))}

Alphabet == {"a", ".", " "}

\* The content texts of up to MaxText characters; <<>> is a result without
\* content.
Texts == UNION {[1 .. n -> Alphabet] : n \in 0 .. MaxText}

\* What search returns to the handler: up to MaxResults results with no
\* total, a total of 0, their own count or a larger total; one result with
\* any content text; or a results array that holds a null.
ShapeData ==
    UNION {{[results |-> [k \in 1 .. n |-> RawResult(1, k)], number_of_results |-> total] :
               total \in {Undefined, IntV(0), IntV(n), IntV(100)}} : n \in 0 .. MaxResults}
    \cup {[results |-> <<[RawResult(1, 1) EXCEPT !.content = c]>>, number_of_results |-> IntV(1)] :
              c \in Texts}
    \cup {[results |-> <<RawResult(1, 1), Null>>, number_of_results |-> IntV(2)]}

InitShape == Loaded(ShapeInputs)

\* buildStructuredResponse(data, params.query, params) is called on what
\* search returned.
Shape(data) ==
    /\ pc = "idle"
    /\ mode' = "shape"
    /\ pc' = "done"
    /\ outcome' = Returned(data)
    /\ response' = buildStructuredResponse(data, params.f.query, params.f, "elapsed")
    /\ UNCHANGED <<requests, SEARXNG_INSTANCES, reconfigs, backend, params, instanceIdx, errors,
                   searchPromises, calls, arrival, entryInstances, seen>>

NextShape == \E data \in ShapeData : Shape(data)

SpecShape == InitShape /\ [][NextShape]_vars

\* The requests of the pagination examples: a whole offset and a whole
\* number of wanted results.
PagedInputs ==
    {Args([QueryOnly EXCEPT !.offset = off, !.max_results = mr]) :
         <<off, mr>> \in
             ({Undefined, IntV(39)} \cup Whole(0, MaxOffset))
                 \X ({Undefined} \cup Whole(1, MaxWanted))}

\* An instance that has TotalHits results for the query, in one overall
\* order, and serves them in pages of size results: the page pageno of the
\* form holds the results at the overall positions (pageno - 1) * size + 1
\* to pageno * size.  A result carries its overall position.
PageOf(body, size) ==
    LET first == ((body.pageno.h \div 2) - 1) * size
        n == IF first >= TotalHits THEN 0 ELSE Min(size, TotalHits - first)
    IN [j \in 1 .. n |-> RawResult(1, first + j)]

\* The promise of the map callback for an instance that answers 2xx with
\* the page the form asks for.
PagedSettle(instance, body, size) ==
    IF PageOf(body, size) # <<>>
    THEN Fulfilled(instance, [results |-> PageOf(body, size), number_of_results |-> IntV(TotalHits)])
    ELSE Rejected(instance, ParCaught(instance, NoResultsMsg(instance)))

InitPaged == Loaded(PagedInputs)

\* A tools/call request runs from its arrival to its answer against one
\* instance that serves pages of size results.
PagedSearch(size) ==
    /\ pc = "idle"
    /\ EarlyResponse("web_search", params) = None
    /\ mode' = "paged"
    /\ pc' = "done"
    /\ entryInstances' = SEARXNG_INSTANCES
    /\ calls' = <<Call(1, SEARXNG_INSTANCES[1], params)>>
    /\ searchPromises' =
           <<PagedSettle(SEARXNG_INSTANCES[1], searchParams(params.f), size)>>
    /\ arrival' = <<1>>
    /\ outcome' = ParResult(SEARXNG_INSTANCES, searchPromises')
    /\ response' = HandlerResponse(outcome', params)
    /\ UNCHANGED <<requests, SEARXNG_INSTANCES, reconfigs, backend, params, instanceIdx, errors, seen>>

NextPaged == \E size \in 1 .. MaxPageSize : PagedSearch(size)

SpecPaged == InitPaged /\ [][NextPaged]_vars

\* Bounds of the contents that are truncated and of the lengths asked for.
MaxContent == 7

MaxLength == 7

\* The content lengths formatStructuredSearchResult is called with.
TruncateInputs ==
    {Args([QueryOnly EXCEPT !.content_length = cl]) : cl \in Whole(0, MaxLength)}

\* The non-empty content texts of up to MaxContent characters.
LongTexts == UNION {[1 .. n -> Alphabet] : n \in 1 .. MaxContent}

InitTruncate == Loaded(TruncateInputs)

\* formatStructuredSearchResult(result, contentLength) is called on a raw
\* result with the content text.
Truncate(text) ==
    /\ pc = "idle"
    /\ mode' = "truncate"
    /\ pc' = "done"
    /\ outcome' = Returned([RawResult(1, 1) EXCEPT !.content = text])
    /\ response' = formatStructuredSearchResult(outcome'.data, params.f.content_length)
    /\ UNCHANGED <<requests, SEARXNG_INSTANCES, reconfigs, backend, params, instanceIdx, errors,
                   searchPromises, calls, arrival, entryInstances, seen>>

NextTruncate == \E text \in LongTexts : Truncate(text)

SpecTruncate == InitTruncate /\ [][NextTruncate]_vars

(***************************************************************************)
(* Two searches on the handlers of one process.  Each call of search has   *)
(* its own locals (errors, the iterator, searchPromises); the calls share  *)
(* the instance list and the instances.                                    *)
(***************************************************************************)
Requests == {1, 2}

\* The locals of a call of search that has not started.
NotStarted ==
    [kind |-> "idle", pc |-> "idle", instanceIdx |-> 0, errors |-> <<>>,
     searchPromises |-> <<>>, calls |-> <<>>, outcome |-> None]

\* errors kept in a field that the calls of search share.
SharedErrors(r) == requests[CHOOSE other \in Requests : other # r].errors

\* const errors: string[] = []
FreshErrors(r) == <<>>

InitTwo ==
    /\ SEARXNG_INSTANCES \in InstanceLists
    /\ reconfigs = 0
    /\ backend \in [InstanceIds -> Outcomes]
    /\ \A i \in InstanceIds : i > Len(SEARXNG_INSTANCES) => backend[i] = "neterr"
    /\ mode = "idle"
    /\ pc = "idle"
    /\ params = Args(QueryOnly)
    /\ instanceIdx = 0
    /\ errors = <<>>
    /\ searchPromises = <<>>
    /\ calls = <<>>
    /\ arrival = <<>>
    /\ outcome = None
    /\ response = None
    /\ entryInstances = SEARXNG_INSTANCES
    /\ seen = [seq |-> NoMsg, par |-> NoMsg]
    /\ requests = [r \in Requests |-> NotStarted]

\* The locals of request r after a step of its sequential loop.
SeqLocals(r, loop) ==
    [kind |-> "seq", pc |-> loop.pc, instanceIdx |-> loop.instanceIdx,
     errors |-> loop.errors, searchPromises |-> <<>>, calls |-> loop.calls,
     outcome |-> loop.outcome]

\* search(params) is called on a SearchHandler while the other request is
\* at any point of its own search.
TwoSeqSearch(r) ==
    /\ requests[r].pc \in {"idle", "done"}
    /\ requests' =
           [requests EXCEPT
               ![r] = SeqLocals(r, SeqLoop(SEARXNG_INSTANCES, 1, FreshErrors(r), <<>>, params))]
    /\ UNCHANGED <<SEARXNG_INSTANCES, reconfigs, backend, mode, pc, params, instanceIdx,
                   errors, searchPromises, calls, arrival, outcome, response,
                   entryInstances, seen>>

\* The fetch that request r awaits settles and its loop runs on.
TwoSeqAnswer(r) ==
    /\ requests[r].kind = "seq"
    /\ requests[r].pc = "await"
    /\ backend[requests[r].calls[Len(requests[r].calls)].inst] # "hang"
    /\ requests' =
           [requests EXCEPT
               ![r] = SeqLocals(r, SeqResume(SEARXNG_INSTANCES, requests[r].instanceIdx,
                                             requests[r].errors, requests[r].calls, params))]
    /\ UNCHANGED <<SEARXNG_INSTANCES, reconfigs, backend, mode, pc, params, instanceIdx,
                   errors, searchPromises, calls, arrival, outcome, response,
                   entryInstances, seen>>

\* search(params) is called on a ParallelSearchHandler.
TwoParSearch(r) ==
    /\ requests[r].pc \in {"idle", "done"}
    /\ requests' =
           [requests EXCEPT
               ![r] = [kind |-> "par", pc |-> "settling", instanceIdx |-> 0,
                       errors |-> <<>>, searchPromises |-> ParMap(SEARXNG_INSTANCES),
                       calls |-> ParCalls(SEARXNG_INSTANCES, 1, params), outcome |-> None]]
    /\ UNCHANGED <<SEARXNG_INSTANCES, reconfigs, backend, mode, pc, params, instanceIdx,
                   errors, searchPromises, calls, arrival, outcome, response,
                   entryInstances, seen>>

\* The fetch of the callback at position pos of request r settles.
TwoParAnswer(r, pos) ==
    /\ requests[r].kind = "par"
    /\ requests[r].pc = "settling"
    /\ pos \in 1 .. Len(requests[r].searchPromises)
    /\ requests[r].searchPromises[pos].status = "pending"
    /\ backend[requests[r].searchPromises[pos].inst] # "hang"
    /\ requests' =
           [requests EXCEPT
               ![r].searchPromises[pos] =
                   ParSettle(requests[r].searchPromises[pos].inst,
                             backend[requests[r].searchPromises[pos].inst])]
    /\ UNCHANGED <<SEARXNG_INSTANCES, reconfigs, backend, mode, pc, params, instanceIdx,
                   errors, searchPromises, calls, arrival, outcome, response,
                   entryInstances, seen>>

\* Promise.allSettled of request r has resolved: its search returns or throws.
TwoParFinish(r) ==
    /\ requests[r].kind = "par"
    /\ requests[r].pc = "settling"
    /\ AllSettled(requests[r].searchPromises)
    /\ requests' =
           [requests EXCEPT
               ![r].pc = "done",
               ![r].outcome = ParResult(SEARXNG_INSTANCES, requests[r].searchPromises)]
    /\ UNCHANGED <<SEARXNG_INSTANCES, reconfigs, backend, mode, pc, params, instanceIdx,
                   errors, searchPromises, calls, arrival, outcome, response,
                   entryInstances, seen>>

NextTwo ==
    \E r \in Requests :
        \/ TwoSeqSearch(r)
        \/ TwoSeqAnswer(r)
        \/ TwoParSearch(r)
        \/ \E pos \in 1 .. MaxInstances : TwoParAnswer(r, pos)
        \/ TwoParFinish(r)

SpecTwo == InitTwo /\ [][NextTwo]_vars

(***************************************************************************)
(* The ParallelSearchHandler that sums the totals of the instances: the    *)
(* same fan-out, with another aggregation after Promise.allSettled.        *)
(***************************************************************************)
RECURSIVE SumTotals(_)
\* fulfilled.reduce((sum, r) => sum + r.metadata.total_results, 0), for
\* values that all hold a metadata object
SumTotals(values) ==
    IF values = <<>> THEN 0
    ELSE (Head(values).metadata.total_results.h \div 2) + SumTotals(Tail(values))

\* The code after await Promise.allSettled: reading total_results of a
\* value that holds no metadata object raises a TypeError.
ParResultSummed(instances, results, query) ==
    IF Len(fulfilled(results)) = 0
    THEN Thrown(AllFailedMsg(instances, rejected(results)))
    ELSE IF \E k \in 1 .. Len(fulfilled(results)) :
                "metadata" \notin DOMAIN fulfilled(results)[k]
    THEN Thrown(RawError("Cannot read properties of undefined"))
    ELSE Returned([results |-> allResults(fulfilled(results)),
                   metadata |-> [total_results |-> IntV(SumTotals(fulfilled(results))),
                                 query |-> query]])

\* search(params) is called on the summing ParallelSearchHandler.
SummedSearch(p) ==
    /\ Startable
    /\ mode' = "summed"
    /\ ParStart(p)

\* The fetch of the callback at position pos settles and the callback ends.
SummedAnswer(pos) ==
    /\ mode = "summed"
    /\ pc = "settling"
    /\ pos \in 1 .. Len(searchPromises)
    /\ searchPromises[pos].status = "pending"
    /\ backend[searchPromises[pos].inst] # "hang"
    /\ searchPromises' =
           [searchPromises EXCEPT
               ![pos] = ParSettle(searchPromises[pos].inst, backend[searchPromises[pos].inst])]
    /\ arrival' = Append(arrival, pos)
    /\ UNCHANGED <<requests, SEARXNG_INSTANCES, reconfigs, backend, mode, pc, params,
                   instanceIdx, errors, calls, outcome, response, entryInstances, seen>>

\* Promise.allSettled has resolved: search returns or throws.
SummedFinish ==
    /\ mode = "summed"
    /\ pc = "settling"
    /\ AllSettled(searchPromises)
    /\ pc' = "done"
    /\ outcome' = ParResultSummed(SEARXNG_INSTANCES, searchPromises, params.f.query)
    /\ UNCHANGED <<requests, SEARXNG_INSTANCES, reconfigs, backend, mode, params, instanceIdx,
                   errors, searchPromises, calls, arrival, response, entryInstances, seen>>

\* A parallel search on either of the two ParallelSearchHandler classes.
NextMerge ==
    \/ \E p \in ValidBags : ParSearch(p)
    \/ \E pos \in 1 .. MaxInstances : ParAnswer(pos)
    \/ ParFinish
    \/ \E p \in ValidBags : SummedSearch(p)
    \/ \E pos \in 1 .. MaxInstances : SummedAnswer(pos)
    \/ SummedFinish

SpecMerge == Init /\ [][NextMerge]_vars

(***************************************************************************)
(* The older searchWithFallback function: the loop of SearchHandler.search *)
(* over the module's list, behind a check of the list's length.            *)
(***************************************************************************)
\* The form fields of the older function: the page as given, no offset.
fallbackSearchParams(a) ==
    [q |-> a.query,
     pageno |-> OrElse(a.page, IntV(1)),
     language |-> OrElse(a.language, Str("all")),
     time_range |-> IF a.time_range = Str("all_time") THEN Str("")
                    ELSE OrElse(a.time_range, Str("")),
     safesearch |-> Coalesce(a.safesearch, IntV(0)),
     format |-> Str("json")]

FallbackCall(pos, instance, p) ==
    [pos |-> pos, inst |-> instance, body |-> FormFields(fallbackSearchParams(p.f))]

\* throw new Error("No SearXNG instances configured. ...")
NoInstancesMsg == [kind |-> "noInstances"]

RECURSIVE FallbackLoop(_, _, _, _, _)
\* The for-of loop from position i on, up to its next await or to its end.
FallbackLoop(instances, i, errs, issued, p) ==
    IF i > Len(instances)
    THEN [pc |-> "done", instanceIdx |-> i, errors |-> errs, calls |-> issued,
          outcome |-> Thrown(AllFailedMsg(instances, errs))]
    ELSE IF backend[instances[i]] = "badurl"
    THEN FallbackLoop(instances, i + 1,
                      Append(errs, SeqCaught(instances[i], "badurl")), issued, p)
    ELSE [pc |-> "await", instanceIdx |-> i, errors |-> errs,
          calls |-> Append(issued, FallbackCall(i, instances[i], p)), outcome |-> None]

\* FallbackEntry without the check of the list's length.
FallbackEntryUnchecked(instances, p) == FallbackLoop(instances, 1, <<>>, <<>>, p)

\* The function up to its first await or to its end.
FallbackEntry(instances, p) ==
    IF Len(instances) = 0
    THEN [pc |-> "done", instanceIdx |-> 0, errors |-> <<>>, calls |-> <<>>,
          outcome |-> Thrown(NoInstancesMsg)]
    ELSE FallbackLoop(instances, 1, <<>>, <<>>, p)

FallbackSet(r) ==
    /\ pc' = r.pc
    /\ instanceIdx' = r.instanceIdx
    /\ errors' = r.errors
    /\ calls' = r.calls
    /\ outcome' = r.outcome

\* searchWithFallback(params) is called.
FallbackSearch(p) ==
    /\ Startable
    /\ mode' = "fallback"
    /\ params' = p
    /\ entryInstances' = SEARXNG_INSTANCES
    /\ FallbackSet(FallbackEntry(SEARXNG_INSTANCES, p))
    /\ searchPromises' = <<>>
    /\ arrival' = <<>>
    /\ response' = None
    /\ UNCHANGED <<requests, SEARXNG_INSTANCES, reconfigs, backend, seen>>

\* The awaited fetch settles and the loop runs on.
FallbackAnswer ==
    /\ mode = "fallback"
    /\ pc = "await"
    /\ LET instance == calls[Len(calls)].inst
           kind == backend[instance]
       IN /\ kind # "hang"
          /\ IF HasResults(kind)
             THEN FallbackSet([pc |-> "done", instanceIdx |-> instanceIdx, errors |-> errors,
                               calls |-> calls,
                               outcome |-> Returned(RawResponse(instance, kind))])
             ELSE FallbackSet(FallbackLoop(SEARXNG_INSTANCES, instanceIdx + 1,
                                           Append(errors, SeqFailure(instance, kind)),
                                           calls, params))
    /\ arrival' = Append(arrival, instanceIdx)
    /\ UNCHANGED <<requests, SEARXNG_INSTANCES, reconfigs, backend, mode, params,
                   searchPromises, response, entryInstances, seen>>

\* A search by either handler class or by the older function.
NextSearches ==
    \/ \E p \in ValidBags : SeqSearch(p)
    \/ SeqAnswer
    \/ \E p \in ValidBags : ParSearch(p)
    \/ \E pos \in 1 .. MaxInstances : ParAnswer(pos)
    \/ ParFinish
    \/ \E p \in ValidBags : FallbackSearch(p)
    \/ FallbackAnswer

SpecSearches == Init /\ [][NextSearches]_vars

(***************************************************************************)
(* Properties.                                                             *)
(***************************************************************************)
\* An attempt succeeds: 2xx status and a non-empty results array.
Succeeds(kind) == kind \in {"ok", "okNull"}

\* The list positions of the request whose instance succeeds.
Good == {pos \in 1 .. Len(entryInstances) : Succeeds(backend[entryInstances[pos]])}

AllFail == Good = {}

CallPositions == {calls[k].pos : k \in 1 .. Len(calls)}

\* C1: a sequential-fallback search returns the raw response of the
\* lowest-indexed instance that succeeds, and issues no call to an instance
\* that comes after it in the list.
C1_FirstSuccessWins ==
    mode = "seq" =>
        /\ \A g \in Good : \A pos \in CallPositions : pos <= g
        /\ (pc = "done" /\ Good # {}) =>
               LET first == CHOOSE g \in Good : \A h \in Good : g <= h IN
               /\ outcome.type = "return"
               /\ outcome.data = RawResponse(entryInstances[first],
                                             backend[entryInstances[first]])
        /\ (pc = "done" /\ outcome.type = "return") => Good # {}

C1_Witness ==
    /\ mode = "seq"
    /\ pc = "done"
    /\ outcome.type = "return"
    /\ Len(entryInstances) = 2
    /\ Good = {1, 2}
    /\ CallPositions = {1}

\* C2: when every instance fails, search (either strategy) throws one
\* terminal error that names all N base URLs and lists exactly N failure
\* entries, numbered 1..N, the k-th about the k-th instance of the list.
C2_AllFailedEnumerates ==
    (pc = "done" /\ outcome # None /\ AllFail) =>
        /\ outcome.type = "throw"
        /\ outcome.message.kind = "allFailed"
        /\ outcome.message.urls = entryInstances
        /\ Len(outcome.message.details) = Len(entryInstances)
        /\ \A k \in 1 .. Len(entryInstances) :
               /\ outcome.message.details[k].ord = k
               /\ outcome.message.details[k].err.inst = entryInstances[k]

C2_Witness ==
    /\ pc = "done"
    /\ mode = "par"
    /\ outcome.type = "throw"
    /\ Len(entryInstances) = 2
    /\ seen.seq # NoMsg
    /\ seen.par # NoMsg

RECURSIVE ExpectedMerge(_, _)
\* The results of the instances that succeed, concatenated in list order.
ExpectedMerge(instances, pos) ==
    IF pos > Len(instances) THEN <<>>
    ELSE (IF Succeeds(backend[instances[pos]])
          THEN ResultsOf(instances[pos], backend[instances[pos]]) ELSE <<>>)
         \o ExpectedMerge(instances, pos + 1)

\* A parallel search is running or has ended.
Fanned == mode \in {"par", "tool"} /\ (pc = "settling" \/ outcome # None)

\* C3: the merged results of a parallel search are the results of the
\* successful instances concatenated in instance list order, in whatever order
\* the calls completed.
C3_MergeInListOrder ==
    (Fanned /\ outcome.type = "return") =>
        outcome.data.results = ExpectedMerge(entryInstances, 1)

C3_Witness ==
    /\ mode = "par"
    /\ outcome.type = "return"
    /\ Good = {1, 2}
    /\ arrival = <<2, 1>>

\* The list positions whose base URL parses.
Parseable == {pos \in 1 .. Len(entryInstances) : backend[entryInstances[pos]] # "badurl"}

\* C4 as stated: a parallel search issues one call to every configured
\* instance and does not complete before every call has settled.
C4_CallsEveryInstance ==
    Fanned =>
        /\ CallPositions = 1 .. Len(entryInstances)
        /\ outcome # None => AllSettled(searchPromises)

\* C4 as amended: a parallel search issues exactly one call to every
\* configured instance whose base URL parses and none to the others, and it
\* does not complete before every promise has settled and every call it
\* issued has been answered, whether or not another instance succeeded.
C4_SettlesAllBeforeCompleting ==
    Fanned =>
        /\ CallPositions = Parseable
        /\ Len(calls) = Cardinality(Parseable)
        /\ \A k \in 1 .. Len(calls) : calls[k].inst = entryInstances[calls[k].pos]
        /\ outcome # None =>
               /\ \A pos \in 1 .. Len(searchPromises) :
                      searchPromises[pos].status \in {"fulfilled", "rejected"}
               /\ Len(searchPromises) = Len(entryInstances)
               /\ CallPositions = Range(arrival)

C4_Witness ==
    /\ mode = "par"
    /\ outcome.type = "return"
    /\ Len(entryInstances) = 2
    /\ Len(arrival) = 2
    /\ Succeeds(backend[entryInstances[arrival[1]]])
    /\ ~Succeeds(backend[entryInstances[arrival[2]]])

\* C5: when at least one instance succeeds, a parallel search returns, and
\* what it returns holds all and only the results of the successful instances
\* and nothing about the failed ones.
C5_PartialSuccessReturns ==
    (Fanned /\ outcome # None /\ Good # {}) =>
        /\ outcome.type = "return"
        /\ DOMAIN outcome.data = {"results", "number_of_results"}
        /\ outcome.data.number_of_results = IntV(Len(outcome.data.results))
        /\ \A pos \in Good :
               Range(ResultsOf(entryInstances[pos], backend[entryInstances[pos]]))
                   \subseteq Range(outcome.data.results)
        /\ \A k \in 1 .. Len(outcome.data.results) :
               \E pos \in Good :
                   outcome.data.results[k]
                       \in Range(ResultsOf(entryInstances[pos], backend[entryInstances[pos]]))

C5_Witness ==
    /\ mode = "par"
    /\ pc = "done"
    /\ outcome.type = "return"
    /\ Good = {2}
    /\ backend[entryInstances[1]] = "http"

\* C6: for the same instance list and outcomes, the terminal error of the
\* parallel strategy is the terminal error of the sequential strategy.
C6_SameTerminalError ==
    (seen.seq # NoMsg /\ seen.par # NoMsg) => seen.par = seen.seq

\* C7: every search request that has started eventually completes.
C7_EveryRequestCompletes == [](pc \in {"await", "settling"} => <>(pc = "done"))

\* C8: a request contacts exactly the instances of the list as it was when
\* the request started, and its terminal error enumerates that list.
C8_RequestSeesEntryList ==
    /\ \A k \in 1 .. Len(calls) :
           /\ calls[k].pos <= Len(entryInstances)
           /\ calls[k].inst = entryInstances[calls[k].pos]
    /\ outcome.type = "throw" => outcome.message.urls = entryInstances

\* C9: a tool call whose arguments fail validation is answered with an error
\* response and issues no backend call.
C9_InvalidArgsNoCall ==
    (mode = "tool" /\ ~isWebSearchArgs(params).valid) =>
        /\ pc = "done"
        /\ response # None
        /\ response.isError
        /\ calls = <<>>
        /\ outcome = None

C9_Witness ==
    /\ mode = "tool"
    /\ pc = "done"
    /\ params \in InvalidBags
    /\ response.isError
    /\ response.content[1].text.kind = "invalid"
    /\ Len(SEARXNG_INSTANCES) > 0

\* C10: when every instance fails, the tool-call handler answers with one
\* error response whose single text item is 'Search failed: ' followed by the
\* message of the terminal error; it never answers with a result set and no
\* exception leaves the handler.
C10_TotalFailureIsOneError ==
    (mode = "tool" /\ pc = "done") =>
        /\ "isError" \in DOMAIN response
        /\ Len(response.content) = 1
        /\ response.content[1].type = "text"
        /\ (outcome # None /\ AllFail) =>
               /\ response.isError
               /\ response.content[1].text.kind = "searchFailed"
               /\ response.content[1].text.message = outcome.message
               /\ outcome.message.kind = "allFailed"

C10_Witness ==
    /\ mode = "tool"
    /\ pc = "done"
    /\ outcome.type = "throw"
    /\ Len(entryInstances) = 2
    /\ response.isError

(***************************************************************************)
(* Pagination, translation, shaping and validation of one request.         *)
(***************************************************************************)
\* The offset and the number of wanted results a request asks for, with the
\* documented defaults.
AskedOffset == IF params.f.offset = Undefined THEN 0 ELSE params.f.offset.h \div 2

AskedCount == IF params.f.max_results = Undefined THEN 10 ELSE params.f.max_results.h \div 2

\* The titles of the results a successful response lists, in order.
ListedTitles ==
    LET results == response.content[1].text.value.results
    IN [j \in 1 .. Len(results) |-> results[j].title]

\* The titles of the results at the overall positions from + 1 .. from + n.
TitlesAt(from, n) == [j \in 1 .. n |-> RawResult(1, from + j).title]

\* C11: end to end, a request with offset = k and max_results = m returns
\* the results at the positions k+1 .. k+m of the backend's overall ordering
\* of the query's results, as far as those results exist (offset = 10 with
\* max_results = 10 returns the results 11-20, offset = 39 with
\* max_results = 4 the results 40-43).
C11_OffsetWindowEndToEnd ==
    (mode = "paged" /\ pc = "done" /\ AskedOffset < TotalHits) =>
        /\ ~response.isError
        /\ ListedTitles = TitlesAt(AskedOffset, Min(AskedCount, TotalHits - AskedOffset))

\* The cases in which the request does return the window it asks for.
PagedWindowOnlyOnFirstPage ==
    (mode = "paged" /\ pc = "done" /\ AskedOffset < TotalHits
        /\ ~response.isError
        /\ ListedTitles = TitlesAt(AskedOffset, Min(AskedCount, TotalHits - AskedOffset)))
    => (AskedOffset < AskedCount
        /\ Len(outcome.data.results) >= Min(AskedOffset + AskedCount, TotalHits))

\* The form fields of the one call an accepted request issues.
SentBody == calls[1].body

Translated == mode = "translate" /\ pc = "done" /\ calls # <<>>

\* floor(offset / max_results) + 1, max_results taken as 10 when absent.
PageForOffset(p) ==
    IntV((p.offset.h \div (IF p.max_results = Undefined THEN 20 ELSE p.max_results.h)) + 1)

\* C12 as worded: for every accepted request the page number sent to the
\* backend is floor(offset / max_results) + 1 when offset > 0 (max_results
\* taken as 10 when absent), and is page, 1 when page is absent, when offset
\* is absent or 0.
C12_PagenoAsWorded ==
    Translated =>
        IF params.f.offset # Undefined /\ params.f.offset.h > 0
        THEN SentBody.pageno = StringOf(PageForOffset(params.f))
        ELSE SentBody.pageno
                 = StringOf(IF params.f.page = Undefined THEN IntV(1) ELSE params.f.page)

\* C12: for every accepted request the page number sent to the backend is
\* floor(offset / max_results) + 1 when offset > 0 (max_results taken as 10
\* when absent), and is page, 1 when page is absent or 0, when offset is
\* absent or 0; a positive offset always overrides page.
C12_Pageno ==
    Translated =>
        IF params.f.offset # Undefined /\ params.f.offset.h > 0
        THEN SentBody.pageno = StringOf(PageForOffset(params.f))
        ELSE SentBody.pageno
                 = StringOf(IF params.f.page \in {Undefined, IntV(0)} THEN IntV(1)
                           ELSE params.f.page)

\* offset = 39 with max_results = 4 and page = 3 is sent as page 10.
C12_Witness ==
    /\ Translated
    /\ params.f.offset = IntV(39)
    /\ params.f.max_results = IntV(4)
    /\ params.f.page = IntV(3)
    /\ SentBody.pageno = "10"

Shaped == mode = "shape" /\ pc = "done"

\* The aggregated sequence that was handed to buildStructuredResponse.
Aggregated == outcome.data.results

WellFormed == \A k \in 1 .. Len(Aggregated) : Aggregated[k] # Null

\* offset and max_results are whole numbers, or absent.
WholeWindow ==
    /\ params.f.offset # Undefined => params.f.offset.h % 2 = 0
    /\ params.f.max_results # Undefined => params.f.max_results.h % 2 = 0

Max(a, b) == IF a >= b THEN a ELSE b

\* The offset and the number of wanted results in halves, with the defaults.
AskedOffsetH == IF params.f.offset = Undefined THEN 0 ELSE params.f.offset.h

AskedCountH == IF params.f.max_results = Undefined THEN 20 ELSE params.f.max_results.h

\* The shaped results at the zero-based positions from .. from + count - 1
\* of the aggregated sequence.
ShapedAt(from, count) ==
    [j \in 1 .. count |->
        formatStructuredSearchResult(Aggregated[from + j],
                                     OrElse(params.f.content_length, IntV(200)))]

\* C13: buildStructuredResponse returns exactly the shaped results at the
\* zero-based positions offset .. offset+max_results-1 of the aggregated
\* sequence, in their original order; the number returned is
\* min(max_results, max(0, n - offset)) for n aggregated results, and an
\* offset at or past the end yields an empty list, never an error.
C13_OffsetWindow ==
    (Shaped /\ WellFormed) =>
        /\ response.type = "return"
        /\ 2 * Len(response.data.results)
               = Min(AskedCountH, Max(0, 2 * Len(Aggregated) - AskedOffsetH))
        /\ WholeWindow =>
               response.data.results
                   = ShapedAt(AskedOffset, Min(AskedCount, Max(0, Len(Aggregated) - AskedOffset)))

\* For whole offset and max_results the window is the one C13 describes.
WholeOffsetWindow ==
    (Shaped /\ WellFormed /\ WholeWindow) =>
        /\ response.type = "return"
        /\ response.data.results
               = ShapedAt(AskedOffset, Min(AskedCount, Max(0, Len(Aggregated) - AskedOffset)))

\* The content length a request asks for, 200 when it names none.
AskedLength ==
    IF params.f.content_length = Undefined THEN 200 ELSE params.f.content_length.h \div 2

\* C14: for every raw result and every content_length value the validator
\* accepts (0..1000), the content of the shaped result that
\* buildStructuredResponse returns, when present, has at most content_length
\* characters.
C14_ContentWithinLength ==
    (Shaped /\ response.type = "return") =>
        \A k \in 1 .. Len(response.data.results) :
            response.data.results[k].content.present =>
                Len(response.data.results[k].content.text) <= AskedLength

\* C15: a request with content_length = 0 gets results without content,
\* only the metadata of each result.
C15_ZeroLengthNoContent ==
    (Shaped /\ response.type = "return" /\ params.f.content_length = IntV(0)) =>
        \A k \in 1 .. Len(response.data.results) :
            ~response.data.results[k].content.present

Validated == mode = "validate" /\ pc = "done"

IsObject == params.t = "object"

Absent(v) == v = Undefined

\* A number that is an integer lo .. hi.
WholeIn(v, lo, hi) == v.t = "number" /\ v.h % 2 = 0 /\ v.h >= 2 * lo /\ v.h <= 2 * hi

\* A number that is an integer >= lo.
WholeFrom(v, lo) == v.t = "number" /\ v.h % 2 = 0 /\ v.h >= 2 * lo

\* The query is present and is a non-empty text.
QueryOk(a) == a.query.t = "string" /\ a.query.s # ""

\* The range rules of max_results, offset and content_length.
MaxResultsOk(a) == Absent(a.max_results) \/ WholeIn(a.max_results, 1, 100)

OffsetOk(a) == Absent(a.offset) \/ WholeFrom(a.offset, 0)

ContentLengthOk(a) == Absent(a.content_length) \/ WholeIn(a.content_length, 0, 1000)

\* The rules of the optional fields that have no range.
PlainFieldsOk(a) ==
    /\ Absent(a.page) \/ a.page.t = "number"
    /\ Absent(a.language) \/ a.language.t = "string"
    /\ Absent(a.time_range) \/ (a.time_range.t = "string" /\ a.time_range.s \in validTimeRanges)
    /\ Absent(a.safesearch) \/ WholeIn(a.safesearch, 0, 2)
    /\ Absent(a.categories)
          \/ (a.categories.t = "array"
                /\ \A i \in 1 .. Len(a.categories.a) :
                       a.categories.a[i].t = "string" /\ a.categories.a[i].s \in validCategories)

\* C16: the validator returns invalid for a null or non-object input, for
\* an input with no query, for a query that is not text and for a query that
\* is the empty text; it returns valid for every input whose query is
\* non-empty text and whose optional fields all satisfy their rules.
C16_QueryRule ==
    Validated =>
        /\ (~IsObject \/ ~QueryOk(params.f)) => ~response.valid
        /\ (IsObject /\ QueryOk(params.f) /\ PlainFieldsOk(params.f) /\ MaxResultsOk(params.f)
               /\ OffsetOk(params.f) /\ ContentLengthOk(params.f)) => response.valid

\* C17: the validator accepts max_results exactly when it is an integer in
\* 1..100, offset exactly when it is an integer >= 0 and content_length
\* exactly when it is an integer in 0..1000; every other value of these
\* fields, a non-integer number inside the range included, is rejected.
C17_WholeNumberRanges ==
    (Validated /\ IsObject) =>
        /\ ~(MaxResultsOk(params.f) /\ OffsetOk(params.f) /\ ContentLengthOk(params.f))
               => ~response.valid
        /\ (params.f.query.t = "string" /\ PlainFieldsOk(params.f) /\ MaxResultsOk(params.f)
               /\ OffsetOk(params.f) /\ ContentLengthOk(params.f)) => response.valid

\* C18: the validator rejects a content_length below 50 (49, say) as it
\* rejects one above 1000: the accepted range of content_length is 50..1000.
C18_ContentLengthFrom50 ==
    (Validated /\ IsObject /\ params.f.content_length.t = "number") =>
        ((params.f.content_length.h < 2 * 50 \/ params.f.content_length.h > 2 * 1000)
            => ~response.valid)

Answered == mode = "translate" /\ pc = "done"

\* C19: a time_range of "all_time", or an absent one, is sent to the backend
\* as the empty text; each of day, week, month and year is sent unchanged;
\* a request with any other time_range is rejected by the validator and
\* issues no call.
C19_TimeRangeSent ==
    Answered =>
        /\ Translated =>
               /\ params.f.time_range \in {Undefined, Str("all_time")} => SentBody.time_range = ""
               /\ params.f.time_range \in {Str(s) : s \in validTimeRanges \ {"all_time"}}
                      => SentBody.time_range = params.f.time_range.s
               /\ SentBody.time_range \in {""} \cup (validTimeRanges \ {"all_time"})
        /\ params.f.time_range \notin {Undefined} \cup {Str(s) : s \in validTimeRanges}
               => (calls = <<>> /\ response.isError)

\* all_time is sent as the empty text.
C19_Witness ==
    /\ Translated
    /\ params.f.time_range = Str("all_time")
    /\ SentBody.time_range = ""

ReportedTotal == outcome.data.number_of_results

\* C21 as worded: total_results equals the reported total whenever the
\* aggregated data reports one, and otherwise the number of results before
\* windowing.
C21_TotalAsWorded ==
    (Shaped /\ response.type = "return") =>
        response.data.metadata.total_results
            = (IF ReportedTotal # Undefined THEN ReportedTotal ELSE IntV(Len(Aggregated)))

\* C21: total_results equals the reported total whenever the aggregated
\* data reports one other than 0, and otherwise (no total, or a total of 0)
\* the number of results before the offset / max_results window is cut; it
\* never depends on offset or max_results.
C21_Total ==
    (Shaped /\ response.type = "return") =>
        response.data.metadata.total_results
            = (IF ReportedTotal \notin {Undefined, IntV(0)} THEN ReportedTotal
               ELSE IntV(Len(Aggregated)))

\* No total is reported and the window is shorter than the sequence.
C21_Witness ==
    /\ Shaped
    /\ response.type = "return"
    /\ ReportedTotal = Undefined
    /\ Len(Aggregated) = MaxResults
    /\ Len(response.data.results) < MaxResults
    /\ response.data.metadata.total_results = IntV(MaxResults)

\* The list positions a sequential search has attempted and left behind.
SeqSettled ==
    IF pc = "await" THEN 1 .. (instanceIdx - 1)
    ELSE IF outcome.type = "return" THEN 1 .. instanceIdx
    ELSE 1 .. Len(entryInstances)

\* The list positions whose promise a parallel search has seen settle.
ParSettled == {pos \in 1 .. Len(searchPromises) : searchPromises[pos].status # "pending"}

\* C22: an attempt on an instance counts as a success exactly when the
\* status is a success status and the parsed results are non-empty; every
\* other outcome adds exactly one failure record for that instance, and does
\* not by itself end the request or surface as an error of its own: only
\* the failure of all instances is raised, as one error.
C22_SuccessAndFailureRecords ==
    /\ (mode = "seq" /\ pc \in {"await", "done"}) =>
           LET failed == {pos \in SeqSettled : ~Succeeds(backend[entryInstances[pos]])} IN
           /\ Len(errors) = Cardinality(failed)
           /\ \A k \in 1 .. Len(errors) : k \in failed /\ errors[k].inst = entryInstances[k]
           /\ (pc = "done" /\ outcome.type = "return") =>
                  /\ Succeeds(backend[entryInstances[instanceIdx]])
                  /\ failed = 1 .. (instanceIdx - 1)
           /\ (pc = "done" /\ outcome.type = "throw") =>
                  /\ failed = 1 .. Len(entryInstances)
                  /\ outcome.message = AllFailedMsg(entryInstances, errors)
    /\ Fanned =>
           /\ \A pos \in ParSettled :
                  /\ searchPromises[pos].status = "fulfilled"
                         <=> Succeeds(backend[entryInstances[pos]])
                  /\ searchPromises[pos].status = "rejected" =>
                         searchPromises[pos].reason.inst = entryInstances[pos]
           /\ outcome # None =>
                  /\ ParSettled = 1 .. Len(entryInstances)
                  /\ outcome.type = "throw" <=> AllFail
                  /\ outcome.type = "throw" =>
                         /\ outcome.message.kind = "allFailed"
                         /\ Len(outcome.message.details) = Len(entryInstances)

\* A sequential search returns after one failure record, and a parallel
\* search returns with one promise rejected.
C22_Witness ==
    \/ /\ mode = "seq"
       /\ pc = "done"
       /\ outcome.type = "return"
       /\ Len(errors) = 1
       /\ backend[entryInstances[1]] = "empty"
    \/ /\ mode = "par"
       /\ pc = "done"
       /\ outcome.type = "return"
       /\ searchPromises[1].status = "rejected"
       /\ backend[entryInstances[1]] = "badjson"

\* The calls of the request that have not been answered.
Outstanding == {k \in 1 .. Len(calls) : calls[k].pos \notin Range(arrival)}

\* C23: during a sequential search at most one backend call is outstanding
\* at any moment, and the call to the instance at a list position is issued
\* only when the attempt on every earlier position is recorded as a failure.
C23_OneCallInFlight ==
    mode = "seq" =>
        /\ Cardinality(Outstanding) <= 1
        /\ Outstanding # {} <=> pc = "await"
        /\ \A k \in 1 .. Len(calls) :
               \A q \in 1 .. (calls[k].pos - 1) :
                   q <= Len(errors) /\ errors[q].inst = entryInstances[q]

\* The second instance is being called after the first one failed.
C23_Witness ==
    /\ mode = "seq"
    /\ pc = "await"
    /\ Len(calls) = 2
    /\ Outstanding = {2}
    /\ Len(errors) = 1

\* The calls of the request that went to an instance.
CallsTo(instance) == {k \in 1 .. Len(calls) : calls[k].inst = instance}

\* C24: within one request, in either strategy, each configured instance
\* receives at most one backend call: a failed instance is not tried again
\* in the same request.
C24_NoRetry ==
    mode \in {"seq", "par", "tool"} =>
        \A instance \in InstanceIds : Cardinality(CallsTo(instance)) <= 1

\* A sequential search has ended after the failure of every instance, and
\* each instance was called once.
C24_Witness ==
    /\ mode = "seq"
    /\ pc = "done"
    /\ outcome.type = "throw"
    /\ Len(entryInstances) = MaxInstances
    /\ \A instance \in InstanceIds : Cardinality(CallsTo(instance)) = 1

\* The fixed order of the validation rules.
RuleOrder ==
    <<"object", "query", "page", "language", "time_range", "safesearch", "categories",
      "max_results", "offset", "content_length">>

\* A number of a range, whole or not.
NumberIn(v, lo, hi) == v.t = "number" /\ v.h >= 2 * lo /\ v.h <= 2 * hi

\* The drawn input violates a rule.  With whole = TRUE the rules are the
\* stated ones (a non-empty query, whole numbers); with whole = FALSE the
\* query may be empty and the three ranges take any number.
Violates(rule, whole) ==
    IF rule = "object" THEN ~IsObject
    ELSE /\ IsObject
         /\ LET a == params.f IN
            CASE rule = "query" ->
                     IF whole THEN ~QueryOk(a) ELSE a.query.t # "string"
              [] rule = "page" -> ~(Absent(a.page) \/ a.page.t = "number")
              [] rule = "language" -> ~(Absent(a.language) \/ a.language.t = "string")
              [] rule = "time_range" ->
                     ~(Absent(a.time_range)
                         \/ (a.time_range.t = "string" /\ a.time_range.s \in validTimeRanges))
              [] rule = "safesearch" -> ~(Absent(a.safesearch) \/ WholeIn(a.safesearch, 0, 2))
              [] rule = "categories" ->
                     ~(Absent(a.categories)
                         \/ (a.categories.t = "array"
                               /\ \A i \in 1 .. Len(a.categories.a) :
                                      /\ a.categories.a[i].t = "string"
                                      /\ a.categories.a[i].s \in validCategories))
              [] rule = "max_results" ->
                     IF whole THEN ~MaxResultsOk(a)
                     ELSE ~(Absent(a.max_results) \/ NumberIn(a.max_results, 1, 100))
              [] rule = "offset" ->
                     IF whole THEN ~OffsetOk(a)
                     ELSE ~(Absent(a.offset) \/ (a.offset.t = "number" /\ a.offset.h >= 0))
              [] rule = "content_length" ->
                     IF whole THEN ~ContentLengthOk(a)
                     ELSE ~(Absent(a.content_length) \/ NumberIn(a.content_length, 0, 1000))

\* The rule that the one reported error belongs to.
ReportedRule ==
    CASE response.rule \in {"query missing", "query type"} -> "query"
      [] response.rule = "category" -> "categories"
      [] OTHER -> response.rule

\* The positions in RuleOrder of the rules that the drawn input violates.
ViolatedRules(whole) == {i \in 1 .. Len(RuleOrder) : Violates(RuleOrder[i], whole)}

\* One error is reported, that of the earliest of the violated rules.
EarliestReported(violated) ==
    /\ ~response.valid
    /\ ReportedRule = RuleOrder[CHOOSE i \in violated : \A j \in violated : i <= j]

\* C25: for an input that violates several validation rules, isWebSearchArgs
\* reports exactly one error, that of the earliest violated rule in the
\* order object, query, page, language, time_range, safesearch, categories,
\* max_results, offset, content_length.
C25_EarliestRuleReported ==
    (Validated /\ Cardinality(ViolatedRules(TRUE)) >= 2) =>
        EarliestReported(ViolatedRules(TRUE))

\* With the rules as the validator tests them, the earliest violated one is
\* the one reported.
EarliestCodedRuleReported ==
    (Validated /\ ViolatedRules(FALSE) # {}) => EarliestReported(ViolatedRules(FALSE))

Truncated == mode = "truncate" /\ pc = "done"

\* The raw content and the length that formatStructuredSearchResult got.
RawContent == outcome.data.content

GivenLength == params.f.content_length.h \div 2

RECURSIVE Reterminated(_, _)
\* The first k sentences, each followed by ". ".
Reterminated(ss, k) ==
    IF k = 0 THEN <<>> ELSE Reterminated(ss, k - 1) \o ss[k] \o <<".", " ">>

\* C26: for content longer than contentLength whose first sentence followed
\* by ". " does not fit within contentLength, formatStructuredSearchResult
\* returns content of length exactly contentLength that ends with the
\* three-character ellipsis; for other over-long content it returns the
\* longest run of leading whole sentences, each re-terminated with ". ",
\* whose total length stays within contentLength, with the trailing
\* whitespace removed.
C26_Truncation ==
    (Truncated /\ Len(RawContent) > GivenLength) =>
        LET ss == sentences(RawContent)
            text == response.content.text
            fitting == {k \in 1 .. Len(ss) : Len(Reterminated(ss, k)) <= GivenLength}
        IN /\ response.content.present
           /\ IF fitting = {}
              THEN /\ Len(text) = GivenLength
                   /\ Len(text) >= 3
                   /\ SubSeq(text, Len(text) - 2, Len(text)) = <<".", ".", ".">>
              ELSE text = TrimEnd(Reterminated(ss, CHOOSE k \in fitting :
                                                       \A j \in fitting : j <= k))

\* From a length of 3 on and for content that does not begin with
\* whitespace, the truncation is the one C26 describes.
TruncationFromThree ==
    (Truncated /\ GivenLength >= 3 /\ RawContent[1] # " ") => C26_Truncation

\* The failure records of the attempts of one sequential search on the
\* list positions 1 .. upTo, in list order.
OwnSeqFailures(upTo) ==
    [pos \in 1 .. upTo |->
        IF backend[entryInstances[pos]] = "badurl"
        THEN SeqCaught(entryInstances[pos], "badurl")
        ELSE SeqFailure(entryInstances[pos], backend[entryInstances[pos]])]

\* C27: failure records belong to one request only: however two searches
\* interleave, and whatever request ran before, the failure list of a
\* request holds one record for each of its own failed attempts and nothing
\* else, and the terminal error of a request lists exactly the failures of
\* its own attempts, one per configured instance.
C27_OwnFailureRecords ==
    \A r \in DOMAIN requests :
        LET q == requests[r] IN
        /\ (q.kind = "seq" /\ q.pc = "await") =>
               q.errors = OwnSeqFailures(q.instanceIdx - 1)
        /\ (q.kind = "seq" /\ q.pc = "done" /\ q.outcome.type = "return") =>
               q.errors = OwnSeqFailures(q.instanceIdx - 1)
        /\ (q.kind = "seq" /\ q.pc = "done" /\ q.outcome.type = "throw") =>
               /\ q.errors = OwnSeqFailures(Len(entryInstances))
               /\ q.outcome.message = AllFailedMsg(entryInstances, q.errors)
        /\ (q.kind = "par" /\ q.pc = "done" /\ q.outcome.type = "throw") =>
               /\ Len(q.outcome.message.details) = Len(entryInstances)
               /\ \A k \in 1 .. Len(entryInstances) :
                      q.outcome.message.details[k].err
                          = q.searchPromises[k].reason

\* One request has failed with an error entry for each instance while the
\* other, started meanwhile, holds the record of its own first failure.
C27_Witness ==
    /\ DOMAIN requests = Requests
    /\ Len(entryInstances) = 2
    /\ requests[1].kind = "seq"
    /\ requests[1].pc = "done"
    /\ requests[1].outcome.type = "throw"
    /\ requests[2].kind = "seq"
    /\ requests[2].pc = "await"
    /\ Len(requests[2].errors) = 1

RECURSIVE ReportedTotals(_, _)
\* The sum of the totals that the successful instances report themselves.
ReportedTotals(instances, pos) ==
    IF pos > Len(instances) THEN 0
    ELSE (IF Succeeds(backend[instances[pos]])
          THEN RawResponse(instances[pos], backend[instances[pos]]).number_of_results.h \div 2
          ELSE 0)
         + ReportedTotals(instances, pos + 1)

\* A parallel search of either class has ended and an instance succeeded.
Merged == mode \in {"par", "summed"} /\ pc = "done" /\ Good # {}

\* C28: after a parallel merge with at least one success the reported total
\* is the number of concatenated results of the successful instances (in
\* the class that sums per-instance metadata: the sum of the totals those
\* instances report), and in either class the merge returns a response and
\* does not raise.
C28_MergeTotal ==
    Merged =>
        /\ outcome.type = "return"
        /\ outcome.data.results = ExpectedMerge(entryInstances, 1)
        /\ IF mode = "par"
           THEN outcome.data.number_of_results = IntV(Len(ExpectedMerge(entryInstances, 1)))
           ELSE outcome.data.metadata.total_results
                    = IntV(ReportedTotals(entryInstances, 1))

\* The class that counts the concatenated results does as C28 says.
MergeCountsResults == (Merged /\ mode = "par") => C28_MergeTotal

\* The tool call was rejected by the time_range rule of the validator.
TimeRangeRejected ==
    /\ Answered
    /\ params.t = "object"
    /\ ~isWebSearchArgs(params).valid
    /\ isWebSearchArgs(params).rule = "time_range"

\* The error text of the response echoes the received time_range and shows
\* examples of correct values.
EchoesTimeRange ==
    /\ response.isError
    /\ response.content[1].text.kind = "invalidTimeRange"
    /\ response.content[1].text.provided = StringOf(params.f.time_range)
    /\ response.content[1].text.examples # <<>>
    /\ \A k \in 1 .. Len(response.content[1].text.examples) :
           response.content[1].text.examples[k] \in validTimeRanges

\* C29: whenever a tool call is rejected because its time_range is invalid,
\* whatever the invalid value is, the error returned to the caller echoes the
\* received value and shows examples of correct values.
C29_TimeRangeEcho == TimeRangeRejected => EchoesTimeRange

\* The echo is there for every invalid time_range that is not falsy.
TruthyTimeRangeEchoed ==
    (TimeRangeRejected /\ Truthy(params.f.time_range)) => EchoesTimeRange

\* A search was started while no instance was configured.
EmptyListSearch ==
    /\ mode \in {"seq", "par", "fallback"}
    /\ pc # "idle"
    /\ entryInstances = <<>>

\* C30: with an empty instance list a search of either strategy issues no
\* backend call and fails with an error, the "All SearXNG instances failed"
\* error with no failure entries in the handler classes and "No SearXNG
\* instances configured" in the older function; it never returns a result
\* set.
C30_EmptyListFails ==
    EmptyListSearch =>
        /\ calls = <<>>
        /\ outcome.type # "return"
        /\ pc = "done" \/ (mode = "par" /\ pc = "settling" /\ ENABLED ParFinish)
        /\ pc = "done" =>
               /\ outcome.type = "throw"
               /\ outcome.message = IF mode = "fallback" THEN NoInstancesMsg
                                    ELSE AllFailedMsg(<<>>, <<>>)

C30_Witness ==
    /\ EmptyListSearch
    /\ mode = "fallback"
    /\ pc = "done"
    /\ seen.seq = AllFailedMsg(<<>>, <<>>)
    /\ seen.par = AllFailedMsg(<<>>, <<>>)
====
